---- MODULE Spec2Model ----
(***************************************************************************)
(* quantrocket-client: the database-administration operations of           *)
(* quantrocket/db.py and the `realtime` command group of                   *)
(* quantrocket/cli/subcommands/realtime.py, as one invocation of one entry *)
(* point: the arguments are shaped into a request, the request is handed   *)
(* to the transport (houston), the response goes through the error mapper  *)
(* and is decoded.                                                         *)
(***************************************************************************)
EXTENDS Integers, Sequences, FiniteSets, TLC

VARIABLES
    pc,        \* position of the invocation
    entry,     \* the function or subcommand invoked
    via,       \* "api" (library call) or "cli" (through json_to_cli / argparse)
    args,      \* keyword arguments, as the caller passed them
    queue,     \* operations the entry point still has to call
    requests,  \* every request handed to the transport, in order
    response,  \* the response of the last transport call
    events,    \* what the operation did, in order
    typed,     \* what getpass returned (None while it was not called)
    result,    \* what the operation returned or raised
    exit,      \* exit code of the CLI invocation (-1 while it runs)
    argv       \* command line of a realtime subcommand

vars == <<pc, entry, via, args, queue, requests, response, events, typed,
          result, exit, argv>>

(***************************************************************************)
(* Bounds                                                                  *)
(***************************************************************************)
\* longest list passed for a list-valued keyword argument
MaxList == 1
\* longest command line, besides the documented examples
MaxArgs == 4

(***************************************************************************)
(* Python values                                                           *)
(***************************************************************************)
None == [t |-> "none"]
Str(s) == [t |-> "str", v |-> s]
List(l) == [t |-> "list", v |-> l]
Bool(b) == [t |-> "bool", v |-> b]

\* Python truth value, as `if x:` tests it
Truthy(x) ==
    CASE x.t = "none" -> FALSE
      [] x.t = "str" -> x.v # ""
      [] x.t = "list" -> x.v # <<>>
      [] x.t = "bool" -> x.v

\* sequences over S of length at most n
SeqsUpTo(S, n) == UNION {[1..k -> S] : k \in 0..n}

\* the dict holding every key, whatever its argument
AllKeys(keys, a) == [k \in keys |-> a[k]]

\* the dict holding exactly the keys whose argument is truthy
OnlyTruthy(keys, a) == [k \in {x \in keys : Truthy(a[x])} |-> a[k]]

EmptyDict == [k \in {} |-> None]

(***************************************************************************)
(* Arguments callers pass                                                  *)
(***************************************************************************)
Names == {"a", "b"}
ListArgs == {None} \cup {List(l) : l \in SeqsUpTo(Names, MaxList)}
StrArgs == {None, Str(""), Str("x")}
BoolArgs == {Bool(FALSE), Bool(TRUE)}

ListDatabasesArgs ==
    [services : ListArgs, codes : ListArgs, detail : BoolArgs, expand : BoolArgs]
S3ConfigArgs ==
    [access_key_id : StrArgs, secret_access_key : StrArgs,
     bucket : StrArgs, region : StrArgs]
S3PushArgs == [services : ListArgs, codes : ListArgs]
S3PullArgs == [services : ListArgs, codes : ListArgs, force : BoolArgs]
OptimizeArgs == [services : ListArgs, codes : ListArgs]
NoArgs == EmptyDict

\* the defaults of each signature: what an omitted argument is
Default(a) == IF a.t = "bool" THEN ~a.v ELSE a.t = "none"

(***************************************************************************)
(* Requests                                                                *)
(***************************************************************************)
NoResponse == [status |-> 0, content |-> ""]
NoResult == [kind |-> "none"]
Return(v) == [kind |-> "return", value |-> v]
Raise(e, m) == [kind |-> "raise", error |-> e, message |-> m]

\* a path is its segments: <<"/realtime/config/", code>> is /realtime/config/{code}
Request(method, path, payload) ==
    [method |-> method, path |-> path, payload |-> payload]

list_databases_request(a) ==
    Request("GET", <<"/db/databases">>,
            OnlyTruthy({"services", "codes", "detail", "expand"}, a))

get_s3_config_request == Request("GET", <<"/db/s3config">>, EmptyDict)

set_s3_config_request(a) ==
    Request("PUT", <<"/db/s3config">>,
            OnlyTruthy({"access_key_id", "secret_access_key", "bucket", "region"}, a))

\* s3_push_databases issuing a GET
s3_push_databases_request_get(a) ==
    Request("GET", <<"/db/s3">>, OnlyTruthy({"services", "codes"}, a))

s3_push_databases_request(a) ==
    Request("PUT", <<"/db/s3">>, OnlyTruthy({"services", "codes"}, a))

s3_pull_databases_request(a) ==
    Request("GET", <<"/db/s3">>, OnlyTruthy({"services", "codes", "force"}, a))

optimize_databases_request(a) ==
    Request("POST", <<"/db/optimizations">>, OnlyTruthy({"codes", "services"}, a))

(***************************************************************************)
(* Responses, the error mapper and decoding                                *)
(***************************************************************************)
Bodies == {"", "{}", "{\"status\": \"ok\"}", "{\"error\": \"not found\"}"}
Statuses == {200, 204, 404}
\* a 204 carries no content
Responses ==
    {r \in [status : Statuses, content : Bodies] :
        r.status = 204 => r.content = ""}

\* response.json(): the body parsed as JSON; an empty body is not JSON
JsonDecode(text) ==
    CASE text = "{}" -> Return(EmptyDict)
      [] text = "{\"status\": \"ok\"}" -> Return([status |-> Str("ok")])
      [] text = "{\"error\": \"not found\"}" -> Return([error |-> Str("not found")])
      [] OTHER -> Raise("JSONDecodeError", text)

IsSuccess(status) == status \in 200..299

\* houston.raise_for_status_with_json: NoResult when nothing is raised
raise_for_status_with_json(resp) ==
    IF IsSuccess(resp.status) THEN NoResult
    ELSE LET body == JsonDecode(resp.content) IN
         IF body.kind = "return" /\ "error" \in DOMAIN body.value
         THEN [kind |-> "raise", error |-> "RemoteServiceError",
               status |-> resp.status, message |-> body.value["error"].v]
         ELSE [kind |-> "raise", error |-> "RemoteServiceError",
               status |-> resp.status, message |-> resp.content]

\* `return response.json()`
json_return(resp) ==
    [result |-> JsonDecode(resp.content), events |-> <<"json">>]

\* get_s3_config_return without its guard
get_s3_config_return_unguarded(resp) == json_return(resp)

\* get_s3_config: `if not response.content: return {}` before `return response.json()`
get_s3_config_return(resp) ==
    IF resp.content = ""
    THEN [result |-> Return(EmptyDict), events |-> <<"content">>]
    ELSE [result |-> JsonDecode(resp.content), events |-> <<"content", "json">>]

\* the download command writes the body it receives to the file or to stdout
download_return(resp) ==
    [result |-> Return([written |-> Str(resp.content)]), events |-> <<"write">>]

\* the statement that follows the transport call: decoding first
AfterTransportDecode == "decode"

\* the statement that follows the transport call in every operation
AfterTransport == "raise_for_status"

\* where an invocation ends: a CLI invocation renders its outcome first
Finish(v) == IF v = "cli" THEN "render" ELSE "done"

(***************************************************************************)
(* The argparse parsers of the realtime subcommands                        *)
(***************************************************************************)
\* an optional argument: "list" is nargs="*", "ints" is nargs="*" with
\* type=int, "value" takes one string, "true" is store_true, "const" is
\* store_const
Opt(dest, kind, const, choices, required) ==
    [dest |-> dest, kind |-> kind, const |-> const, choices |-> choices,
     required |-> required]

ListOpt(dest) == Opt(dest, "list", "", {}, FALSE)
IntsOpt(dest) == Opt(dest, "ints", "", {}, FALSE)
ValueOpt(dest) == Opt(dest, "value", "", {}, FALSE)
TrueOpt(dest) == Opt(dest, "true", "", {}, FALSE)

\* both spellings of an option
Both(short, long, o) == (short :> o) @@ (long :> o)

\* the create-tick-db parser with the destinations of -u and -f exchanged
create_tick_db_options_swapped ==
    Both("-u", "--universes", ListOpt("fields"))
    @@ Both("-i", "--conids", ListOpt("conids"))
    @@ Both("-v", "--vendor", Opt("vendor", "value", "", {"ib"}, FALSE))
    @@ Both("-f", "--fields", ListOpt("universes"))
    @@ Both("-p", "--primary-exchange", TrueOpt("primary_exchange"))

create_tick_db_options ==
    Both("-u", "--universes", ListOpt("universes"))
    @@ Both("-i", "--conids", ListOpt("conids"))
    @@ Both("-v", "--vendor", Opt("vendor", "value", "", {"ib"}, FALSE))
    @@ Both("-f", "--fields", ListOpt("fields"))
    @@ Both("-p", "--primary-exchange", TrueOpt("primary_exchange"))

drop_db_options ==
    ("--confirm-by-typing-db-code-again" :>
        Opt("confirm_by_typing_db_code_again", "value", "", {}, TRUE))
    @@ ("--cascade" :> TrueOpt("cascade"))

\* the collect parser with the destinations of --snapshot and --wait exchanged
collect_options_swapped ==
    Both("-i", "--conids", ListOpt("conids"))
    @@ Both("-u", "--universes", ListOpt("universes"))
    @@ Both("-f", "--fields", ListOpt("fields"))
    @@ ("--until" :> ValueOpt("until"))
    @@ Both("-s", "--snapshot", TrueOpt("wait"))
    @@ Both("-w", "--wait", TrueOpt("snapshot"))

collect_options ==
    Both("-i", "--conids", ListOpt("conids"))
    @@ Both("-u", "--universes", ListOpt("universes"))
    @@ Both("-f", "--fields", ListOpt("fields"))
    @@ ("--until" :> ValueOpt("until"))
    @@ Both("-s", "--snapshot", TrueOpt("snapshot"))
    @@ Both("-w", "--wait", TrueOpt("wait"))

\* the get parser with --json as a store_true
get_options_json_store_true ==
    Both("-s", "--start-date", ValueOpt("start_date"))
    @@ Both("-e", "--end-date", ValueOpt("end_date"))
    @@ Both("-u", "--universes", ListOpt("universes"))
    @@ Both("-i", "--conids", IntsOpt("conids"))
    @@ ("--exclude-universes" :> ListOpt("exclude_universes"))
    @@ ("--exclude-conids" :> IntsOpt("exclude_conids"))
    @@ Both("-o", "--outfile", ValueOpt("filepath_or_buffer"))
    @@ Both("-j", "--json", TrueOpt("output"))
    @@ Both("-f", "--fields", ListOpt("fields"))

get_options ==
    Both("-s", "--start-date", ValueOpt("start_date"))
    @@ Both("-e", "--end-date", ValueOpt("end_date"))
    @@ Both("-u", "--universes", ListOpt("universes"))
    @@ Both("-i", "--conids", IntsOpt("conids"))
    @@ ("--exclude-universes" :> ListOpt("exclude_universes"))
    @@ ("--exclude-conids" :> IntsOpt("exclude_conids"))
    @@ Both("-o", "--outfile", ValueOpt("filepath_or_buffer"))
    @@ Both("-j", "--json", Opt("output", "const", "json", {}, FALSE))
    @@ Both("-f", "--fields", ListOpt("fields"))

Options(cmd) ==
    CASE cmd = "create-tick-db" -> create_tick_db_options
      [] cmd = "drop-db" -> drop_db_options
      [] cmd = "collect" -> collect_options
      [] cmd = "get" -> get_options

\* the positional argument of each subcommand: its dest and its nargs
Positional(cmd) ==
    IF cmd = "collect" THEN [dest |-> "codes", nargs |-> "+"]
    ELSE [dest |-> "code", nargs |-> "1"]

\* func of set_defaults
Func(cmd) ==
    CASE cmd = "create-tick-db" -> "_cli_create_tick_db"
      [] cmd = "drop-db" -> "_cli_drop_db"
      [] cmd = "collect" -> "_cli_collect_market_data"
      [] cmd = "get" -> "_cli_download_market_data_file"

\* int(): the numerals the command lines use
IntOf == ("12345" :> 12345) @@ ("23456" :> 23456)

Dests(cmd) == {Options(cmd)[f].dest : f \in DOMAIN Options(cmd)}

\* the namespace before any argument is read: store_true defaults to False,
\* everything else to None
EmptyNamespace(cmd) ==
    [d \in Dests(cmd) \cup {Positional(cmd).dest} |->
        IF \E f \in DOMAIN Options(cmd) :
              Options(cmd)[f].dest = d /\ Options(cmd)[f].kind = "true"
        THEN Bool(FALSE) ELSE None]

\* cur: the option whose values are being read ("" when none); pos: the
\* positional strings; closed: an option followed the positional strings
ParseStart(cmd) ==
    [ns |-> EmptyNamespace(cmd), cur |-> "", pos |-> <<>>, closed |-> FALSE,
     err |-> FALSE]

Awaiting(cmd, st) ==
    st.cur # "" /\ Options(cmd)[st.cur].kind = "value"

\* one command-line string read
ParseStep(cmd, st, tok) ==
    IF st.err THEN st
    ELSE IF tok \in DOMAIN Options(cmd)
    THEN LET o == Options(cmd)[tok]
             at == [st EXCEPT !.closed = (st.pos # <<>>)]
         IN IF Awaiting(cmd, st) THEN [st EXCEPT !.err = TRUE]
            ELSE CASE o.kind = "true" ->
                        [at EXCEPT !.ns[o.dest] = Bool(TRUE), !.cur = ""]
                   [] o.kind = "const" ->
                        [at EXCEPT !.ns[o.dest] = Str(o.const), !.cur = ""]
                   [] o.kind \in {"list", "ints"} ->
                        [at EXCEPT !.ns[o.dest] = List(<<>>), !.cur = tok]
                   [] o.kind = "value" -> [at EXCEPT !.cur = tok]
    ELSE IF st.cur # ""
    THEN LET o == Options(cmd)[st.cur] IN
         CASE o.kind = "list" ->
                [st EXCEPT !.ns[o.dest] = List(Append(st.ns[o.dest].v, tok))]
           [] o.kind = "ints" ->
                IF tok \in DOMAIN IntOf
                THEN [st EXCEPT !.ns[o.dest] =
                                    List(Append(st.ns[o.dest].v, IntOf[tok]))]
                ELSE [st EXCEPT !.err = TRUE]
           [] o.kind = "value" ->
                IF o.choices = {} \/ tok \in o.choices
                THEN [st EXCEPT !.ns[o.dest] = Str(tok), !.cur = ""]
                ELSE [st EXCEPT !.err = TRUE]
    ELSE IF st.closed THEN [st EXCEPT !.err = TRUE]
    ELSE [st EXCEPT !.pos = Append(st.pos, tok)]

RECURSIVE ParseFrom(_, _, _, _)
ParseFrom(cmd, line, i, st) ==
    IF i > Len(line) THEN st
    ELSE ParseFrom(cmd, line, i + 1, ParseStep(cmd, st, line[i]))

\* parse_args: the namespace, or err when argparse exits with a usage error
parse_args(cmd, line) ==
    LET st == ParseFrom(cmd, line, 1, ParseStart(cmd))
        p == Positional(cmd)
        missing == \E f \in DOMAIN Options(cmd) :
                      /\ Options(cmd)[f].required
                      /\ st.ns[Options(cmd)[f].dest] = None
        bad == \/ st.err
               \/ Awaiting(cmd, st)
               \/ missing
               \/ (p.nargs = "1" /\ Len(st.pos) # 1)
               \/ (p.nargs = "+" /\ Len(st.pos) < 1)
    IN IF bad THEN [err |-> TRUE, ns |-> EmptyDict]
       ELSE [err |-> FALSE,
             ns |-> [st.ns EXCEPT ![p.dest] =
                        IF p.nargs = "1" THEN Str(st.pos[1]) ELSE List(st.pos)]]

(***************************************************************************)
(* The functions the realtime subcommands call                             *)
(***************************************************************************)
\* a keyword argument, None when the caller did not pass it
Arg(a, k) == IF k \in DOMAIN a THEN a[k] ELSE None

create_tick_db_request(a) ==
    Request("POST", <<"/realtime/config/", a.code.v>>,
            ("code" :> a.code)
            @@ OnlyTruthy({"universes", "conids", "vendor", "fields",
                           "primary_exchange"}, a))

\* drop-db with no check of the confirmation
drop_db_invalid_unchecked(a) == FALSE

\* drop-db: the confirmation must repeat the code
drop_db_invalid(a) == a.confirm_by_typing_db_code_again # a.code

drop_db_request(a) ==
    Request("DELETE", <<"/realtime/config/", a.code.v>>,
            OnlyTruthy({"cascade"}, a))

\* collect: --wait requires --snapshot
collect_invalid(a) == Truthy(a.wait) /\ ~Truthy(a.snapshot)

collect_request(a) ==
    Request("POST", <<"/realtime/collections">>,
            ("codes" :> a.codes)
            @@ OnlyTruthy({"conids", "universes", "fields", "until",
                           "snapshot", "wait"}, a))

\* get: CSV unless JSON is asked for
OutputFormat(a) == IF Arg(a, "output") = Str("json") THEN "json" ELSE "csv"

download_request(a) ==
    Request("GET", <<"/realtime/", a.code.v, ".", OutputFormat(a)>>,
            OnlyTruthy({"start_date", "end_date", "universes", "conids",
                        "exclude_universes", "exclude_conids", "fields"}, a))

(***************************************************************************)
(* Entry points                                                            *)
(***************************************************************************)
DbOps == {"list_databases", "get_s3_config", "set_s3_config",
          "s3_push_databases", "s3_pull_databases", "optimize_databases"}

ArgsOf(op) ==
    CASE op = "list_databases" -> ListDatabasesArgs
      [] op = "get_s3_config" -> {NoArgs}
      [] op = "set_s3_config" -> S3ConfigArgs
      [] op = "s3_push_databases" -> S3PushArgs
      [] op = "s3_pull_databases" -> S3PullArgs
      [] op = "optimize_databases" -> OptimizeArgs

\* _cli_get_or_set_s3_config calling both functions
cli_get_or_set_s3_config_both(a) == <<"set_s3_config", "get_s3_config">>

\* _cli_get_or_set_s3_config testing the credentials only
cli_get_or_set_s3_config_credentials_only(a) ==
    IF Truthy(a.access_key_id) \/ Truthy(a.secret_access_key)
    THEN <<"set_s3_config">>
    ELSE <<"get_s3_config">>

\* _cli_get_or_set_s3_config: the functions it calls, in order
cli_get_or_set_s3_config(a) ==
    IF \/ Truthy(a.access_key_id) \/ Truthy(a.secret_access_key)
       \/ Truthy(a.bucket) \/ Truthy(a.region)
    THEN <<"set_s3_config">>
    ELSE <<"get_s3_config">>

\* each CLI wrapper of db.py: the arguments it takes, the functions it calls
DbCli == {"_cli_list_databases", "_cli_get_or_set_s3_config",
          "_cli_s3_push_databases", "_cli_s3_pull_databases",
          "_cli_optimize_databases"}

CliArgsOf(w) ==
    CASE w = "_cli_list_databases" -> ListDatabasesArgs
      [] w = "_cli_get_or_set_s3_config" -> S3ConfigArgs
      [] w = "_cli_s3_push_databases" -> S3PushArgs
      [] w = "_cli_s3_pull_databases" -> S3PullArgs
      [] w = "_cli_optimize_databases" -> OptimizeArgs

Callees(w, a) ==
    CASE w = "_cli_list_databases" -> <<"list_databases">>
      [] w = "_cli_get_or_set_s3_config" -> cli_get_or_set_s3_config(a)
      [] w = "_cli_s3_push_databases" -> <<"s3_push_databases">>
      [] w = "_cli_s3_pull_databases" -> <<"s3_pull_databases">>
      [] w = "_cli_optimize_databases" -> <<"optimize_databases">>

(***************************************************************************)
(* Command lines                                                           *)
(***************************************************************************)
Subcommands == {"create-tick-db", "drop-db", "collect", "get"}

Tokens(cmd) ==
    CASE cmd = "create-tick-db" ->
            {"usa-stk-trades", "usa-stk", "last", "-u", "-f", "-p"}
      [] cmd = "drop-db" ->
            {"usa-stk-trades", "usa-stk", "--confirm-by-typing-db-code-again",
             "--cascade"}
      [] cmd = "collect" ->
            {"usa-stk-trades", "-s", "-w", "--wait", "--until", "30m", "-f"}
      [] cmd = "get" ->
            {"globex-fut-taq", "-j", "--json", "-o", "out.csv", "-i", "12345"}

\* the command lines of the parsers' epilogs
Examples(cmd) ==
    CASE cmd = "create-tick-db" ->
            {<<"usa-stk-trades", "-u", "usa-stk", "--fields", "last", "volume">>,
             <<"usa-stk-trades", "-u", "usa-stk", "-f", "last", "volume">>,
             <<"globex-fut-taq", "-u", "globex-fut", "--fields", "last", "volume",
               "bid", "ask", "bid_size", "ask_size">>}
      [] cmd = "drop-db" ->
            {<<"usa-stk-trades", "--confirm-by-typing-db-code-again",
               "usa-stk-trades">>}
      [] cmd = "collect" ->
            {<<"japan-banks-trades">>,
             <<"usa-stk-trades", "--conids", "12345", "23456", "34567",
               "--until", "30m">>,
             <<"usa-stk-trades", "--snapshot", "--wait">>}
      [] cmd = "get" ->
            {<<"globex-fut-taq", "--start-date", "08:00:00 America/Chicago",
               "-o", "globex_taq.csv">>}

CommandLines(cmd) == SeqsUpTo(Tokens(cmd), MaxArgs) \cup Examples(cmd)

(***************************************************************************)
(* The invocation                                                          *)
(***************************************************************************)
Init ==
    /\ pc = "idle"
    /\ entry = ""
    /\ via = ""
    /\ args = EmptyDict
    /\ queue = <<>>
    /\ requests = <<>>
    /\ response = NoResponse
    /\ events = <<>>
    /\ typed = None
    /\ result = NoResult
    /\ exit = -1
    /\ argv = <<>>

\* a library function is called
Invoke ==
    /\ pc = "idle"
    /\ \E op \in DbOps : \E a \in ArgsOf(op) :
        /\ entry' = op
        /\ args' = a
        /\ queue' = <<op>>
    /\ via' = "api"
    /\ pc' = "call"
    /\ UNCHANGED <<requests, response, events, typed, result, exit, argv>>

\* a CLI wrapper of db.py is called through json_to_cli
InvokeCli ==
    /\ pc = "idle"
    /\ \E w \in DbCli : \E a \in CliArgsOf(w) :
        /\ entry' = w
        /\ args' = a
        /\ queue' = Callees(w, a)
    /\ via' = "cli"
    /\ pc' = "call"
    /\ UNCHANGED <<requests, response, events, typed, result, exit, argv>>

\* a realtime subcommand is run: argparse reads the command line
InvokeRealtime ==
    /\ pc = "idle"
    /\ \E cmd \in Subcommands : \E line \in CommandLines(cmd) :
        LET p == parse_args(cmd, line) IN
        /\ entry' = cmd
        /\ argv' = line
        /\ IF p.err
           THEN /\ result' = Raise("SystemExit", "usage")
                /\ exit' = 2
                /\ pc' = "done"
                /\ UNCHANGED <<args, queue>>
           ELSE /\ args' = p.ns
                /\ queue' = <<Func(cmd)>>
                /\ pc' = "call"
                /\ UNCHANGED <<result, exit>>
    /\ via' = "cli"
    /\ UNCHANGED <<requests, response, events, typed>>

\* houston.get / put / post / delete: the request goes out
Send(r) ==
    /\ requests' = Append(requests, r)
    /\ events' = Append(events, "request")
    /\ pc' = "await"

\* an operation fails before its transport call
Fail(e) ==
    /\ result' = e
    /\ pc' = Finish(via)
    /\ UNCHANGED <<requests, events>>

Calling(op) == pc = "call" /\ queue # <<>> /\ Head(queue) = op

list_databases ==
    /\ Calling("list_databases")
    /\ Send(list_databases_request(args))
    /\ UNCHANGED <<entry, via, args, queue, response, typed, result, exit, argv>>

get_s3_config ==
    /\ Calling("get_s3_config")
    /\ Send(get_s3_config_request)
    /\ UNCHANGED <<entry, via, args, queue, response, typed, result, exit, argv>>

\* the prompt asked for whenever the secret is missing
prompts_for_secret_without_key(a) == ~Truthy(a.secret_access_key)

\* `if access_key_id and not secret_access_key:` the secret is prompted for
prompts_for_secret(a) ==
    Truthy(a.access_key_id) /\ ~Truthy(a.secret_access_key)

\* set_s3_config up to its PUT, or up to its prompt
set_s3_config ==
    /\ Calling("set_s3_config")
    /\ IF prompts_for_secret(args)
       THEN /\ pc' = "getpass"
            /\ UNCHANGED <<requests, events>>
       ELSE Send(set_s3_config_request(args))
    /\ UNCHANGED <<entry, via, args, queue, response, typed, result, exit, argv>>

\* getpass.getpass returns what was typed, which becomes secret_access_key;
\* set_s3_config goes on to its PUT
getpass ==
    /\ pc = "getpass"
    /\ \E t \in {"", "s3cr3t"} :
        /\ typed' = Str(t)
        /\ requests' = Append(requests,
              set_s3_config_request([args EXCEPT !.secret_access_key = Str(t)]))
    /\ events' = events \o <<"getpass", "request">>
    /\ pc' = "await"
    /\ UNCHANGED <<entry, via, args, queue, response, result, exit, argv>>

s3_push_databases ==
    /\ Calling("s3_push_databases")
    /\ Send(s3_push_databases_request(args))
    /\ UNCHANGED <<entry, via, args, queue, response, typed, result, exit, argv>>

s3_pull_databases ==
    /\ Calling("s3_pull_databases")
    /\ Send(s3_pull_databases_request(args))
    /\ UNCHANGED <<entry, via, args, queue, response, typed, result, exit, argv>>

optimize_databases ==
    /\ Calling("optimize_databases")
    /\ Send(optimize_databases_request(args))
    /\ UNCHANGED <<entry, via, args, queue, response, typed, result, exit, argv>>

cli_create_tick_db ==
    /\ Calling("_cli_create_tick_db")
    /\ Send(create_tick_db_request(args))
    /\ UNCHANGED <<entry, via, args, queue, response, typed, result, exit, argv>>

cli_drop_db ==
    /\ Calling("_cli_drop_db")
    /\ IF drop_db_invalid(args)
       THEN Fail(Raise("ValidationError", "confirm"))
       ELSE Send(drop_db_request(args)) /\ UNCHANGED result
    /\ UNCHANGED <<entry, via, args, queue, response, typed, exit, argv>>

cli_collect_market_data ==
    /\ Calling("_cli_collect_market_data")
    /\ IF collect_invalid(args)
       THEN Fail(Raise("ValidationError", "wait"))
       ELSE Send(collect_request(args)) /\ UNCHANGED result
    /\ UNCHANGED <<entry, via, args, queue, response, typed, exit, argv>>

cli_download_market_data_file ==
    /\ Calling("_cli_download_market_data_file")
    /\ Send(download_request(args))
    /\ UNCHANGED <<entry, via, args, queue, response, typed, result, exit, argv>>

\* the transport call returns the service's response
Respond ==
    /\ pc = "await"
    /\ \E r \in Responses : response' = r
    /\ pc' = AfterTransport
    /\ UNCHANGED <<entry, via, args, queue, requests, events, typed, result,
                   exit, argv>>

\* houston.raise_for_status_with_json(response)
RaiseForStatus ==
    /\ pc = "raise_for_status"
    /\ events' = Append(events, "raise_for_status")
    /\ LET e == raise_for_status_with_json(response) IN
       IF e.kind = "raise"
       THEN /\ result' = e
            /\ pc' = Finish(via)
       ELSE /\ pc' = "decode"
            /\ UNCHANGED result
    /\ UNCHANGED <<entry, via, args, queue, requests, response, typed, exit,
                   argv>>

ReturnOf(op, resp) ==
    CASE op = "get_s3_config" -> get_s3_config_return(resp)
      [] op = "_cli_download_market_data_file" -> download_return(resp)
      [] OTHER -> json_return(resp)

\* the operation's return statement; its caller goes on when it returns
Decode ==
    /\ pc = "decode"
    /\ LET out == ReturnOf(Head(queue), response) IN
       /\ events' = events \o out.events
       /\ result' = out.result
       /\ IF out.result.kind = "raise"
          THEN /\ pc' = Finish(via)
               /\ UNCHANGED queue
          ELSE /\ queue' = Tail(queue)
               /\ pc' = IF Tail(queue) = <<>> THEN Finish(via) ELSE "call"
    /\ UNCHANGED <<entry, via, args, requests, response, typed, exit, argv>>

\* json_to_cli and the CLI's exit: non-zero when the operation raised
Render ==
    /\ pc = "render"
    /\ exit' = IF result.kind = "raise" THEN 1 ELSE 0
    /\ pc' = "done"
    /\ UNCHANGED <<entry, via, args, queue, requests, response, events, typed,
                   result, argv>>

Next ==
    \/ Invoke
    \/ InvokeCli
    \/ InvokeRealtime
    \/ list_databases
    \/ get_s3_config
    \/ set_s3_config
    \/ getpass
    \/ s3_push_databases
    \/ s3_pull_databases
    \/ optimize_databases
    \/ cli_create_tick_db
    \/ cli_drop_db
    \/ cli_collect_market_data
    \/ cli_download_market_data_file
    \/ Respond
    \/ RaiseForStatus
    \/ Decode
    \/ Render

Spec == Init /\ [][Next]_vars

(***************************************************************************)
(* Properties                                                              *)
(***************************************************************************)
Range(f) == {f[i] : i \in DOMAIN f}
Db == entry \in DbOps \cup DbCli
Ended == pc \in {"render", "done"}
UsageError == result.kind = "raise" /\ result.error = "SystemExit"
Raised(e) == result.kind = "raise" /\ result.error = e

\* C1 as stated: in every request a db.py operation builds, every optional
\* parameter the caller left at its None/False default is absent from the
\* params/data mapping, and no key of the mapping carries None.
C1_OmittedAbsent_AsStated ==
    Db => \A i \in 1..Len(requests) :
            /\ \A k \in DOMAIN args :
                  Default(args[k]) => k \notin DOMAIN requests[i].payload
            /\ \A k \in DOMAIN requests[i].payload :
                  requests[i].payload[k] # None

\* C1, amended: the same, except that secret_access_key, when getpass was
\* called for it, is sent exactly when what was typed is non-empty; every
\* other omitted parameter is absent and no key carries None.
C1_OmittedAbsent ==
    Db => \A i \in 1..Len(requests) :
            /\ \A k \in DOMAIN args :
                  Default(args[k]) /\ ~(k = "secret_access_key" /\ typed # None)
                      => k \notin DOMAIN requests[i].payload
            /\ typed # None /\ requests[i].method = "PUT" =>
                  ("secret_access_key" \in DOMAIN requests[i].payload
                      <=> typed.v # "")
            /\ \A k \in DOMAIN requests[i].payload :
                  requests[i].payload[k] # None

\* C1 witness: list_databases(detail=True) sent a request holding only detail
C1_Witness ==
    /\ entry = "list_databases"
    /\ args = [services |-> None, codes |-> None, detail |-> Bool(TRUE),
               expand |-> Bool(FALSE)]
    /\ requests # <<>>
    /\ DOMAIN requests[1].payload = {"detail"}

ConfirmFlag == "--confirm-by-typing-db-code-again"
\* the value typed after the (last) confirmation flag of a drop-db command line
TypedConfirm(line) ==
    LET I == {i \in 1..(Len(line) - 1) : line[i] = ConfirmFlag}
    IN line[(CHOOSE i \in I : \A j \in I : j <= i) + 1]
\* the positional strings of a drop-db command line
TypedCodes(line) ==
    {line[i] : i \in {j \in 1..Len(line) :
                        /\ line[j] \notin DOMAIN drop_db_options
                        /\ (j > 1 => line[j - 1] # ConfirmFlag)}}

\* C2: a drop-db command line whose confirmation differs from its code ends in
\* a ValidationError with no request sent; a request of drop-db is a DELETE and
\* is sent only when the two are equal.
C2_DropDbConfirm ==
    entry = "drop-db" /\ ~UsageError /\ pc \notin {"idle", "call"} =>
        /\ TypedCodes(argv) # {TypedConfirm(argv)} =>
              /\ requests = <<>>
              /\ "request" \notin Range(events)
              /\ Raised("ValidationError")
        /\ requests # <<>> =>
              /\ TypedCodes(argv) = {TypedConfirm(argv)}
              /\ requests[1].method = "DELETE"
              /\ requests[1].path = <<"/realtime/config/", TypedConfirm(argv)>>

\* C2 witness: a mismatching drop-db has exited non-zero without any request
C2_Witness ==
    /\ entry = "drop-db"
    /\ argv = <<"usa-stk-trades", ConfirmFlag, "usa-stk">>
    /\ pc = "done"
    /\ exit = 1
    /\ Raised("ValidationError")
    /\ requests = <<>>

HasWait(line) == "-w" \in Range(line) \/ "--wait" \in Range(line)
HasSnapshot(line) == "-s" \in Range(line) \/ "--snapshot" \in Range(line)

C4_NoContentIsEmptyMapping ==
    /\ entry \in DbOps
    /\ pc = "done"
    /\ response = [status |-> 204, content |-> ""]
    => result = Return(EmptyDict)

GetsS3Config ==
    \/ entry = "get_s3_config"
    \/ /\ entry = "_cli_get_or_set_s3_config"
       /\ \A k \in DOMAIN args : ~Truthy(args[k])

\* C5: get_s3_config, on a non-error response, returns {} when the content
\* is empty and the decoded body otherwise, and never decodes an empty body.
C5_GetS3ConfigEmpty ==
    GetsS3Config /\ Ended /\ IsSuccess(response.status) =>
        /\ response.content = "" =>
              /\ result = Return(EmptyDict)
              /\ "json" \notin Range(events)
        /\ response.content = "{}" => result = Return(EmptyDict)
        /\ response.content = "{\"status\": \"ok\"}" =>
              result = Return([status |-> Str("ok")])
        /\ response.content = "{\"error\": \"not found\"}" =>
              result = Return([error |-> Str("not found")])

\* C5 witness: get_s3_config returned {} on a 204
C5_Witness ==
    /\ entry = "get_s3_config"
    /\ pc = "done"
    /\ response = [status |-> 204, content |-> ""]
    /\ result = Return(EmptyDict)

\* C6: in a db.py operation the error mapper runs right after the transport
\* call and before the body is inspected or decoded; when it raises, nothing
\* follows it: the operation ends with that error and one request sent.
C6_MapperFirst ==
    Db =>
        /\ \A i \in 1..Len(events) :
              /\ events[i] = "request" /\ i < Len(events) =>
                    events[i + 1] = "raise_for_status"
              /\ events[i] \in {"content", "json"} =>
                    \E j \in 1..(i - 1) :
                        /\ events[j] = "raise_for_status"
                        /\ \A k \in j..i : events[k] # "request"
        /\ pc = "decode" => events[Len(events)] = "raise_for_status"
        /\ Raised("RemoteServiceError") =>
              /\ Ended
              /\ events[Len(events)] = "raise_for_status"
              /\ Len(requests) = 1
              /\ ~IsSuccess(response.status)
        /\ Ended /\ ~IsSuccess(response.status) /\ requests # <<>> =>
              Raised("RemoteServiceError")

\* C6 witness: the error mapper raised on a 404 and the operation ended
C6_Witness ==
    /\ entry = "optimize_databases"
    /\ pc = "done"
    /\ response.status = 404
    /\ Raised("RemoteServiceError")
    /\ events = <<"request", "raise_for_status">>

\* C7: an invocation of a db.py operation or of its CLI wrapper sends at most
\* one request, and none after the response, success or error.
C7_OneRoundTrip ==
    Db =>
        /\ Len(requests) <= 1
        /\ Len(SelectSeq(events, LAMBDA e : e = "request")) = Len(requests)
        /\ response # NoResponse => Len(requests) = 1

\* C7 witness: a CLI wrapper ended in an error after exactly one request
C7_Witness ==
    /\ entry = "_cli_get_or_set_s3_config"
    /\ pc = "done"
    /\ exit = 1
    /\ Raised("RemoteServiceError")
    /\ Len(requests) = 1

\* the method and path section 6 lists for each operation
SpecEndpoint(op) ==
    CASE op = "list_databases" -> <<"GET", <<"/db/databases">>>>
      [] op = "get_s3_config" -> <<"GET", <<"/db/s3config">>>>
      [] op = "set_s3_config" -> <<"PUT", <<"/db/s3config">>>>
      [] op = "s3_push_databases" -> <<"PUT", <<"/db/s3">>>>
      [] op = "s3_pull_databases" -> <<"GET", <<"/db/s3">>>>
      [] op = "optimize_databases" -> <<"POST", <<"/db/optimizations">>>>

\* C8: every request of a db.py operation has the method and the path listed
\* for that operation, and no other.
C8_Endpoints ==
    entry \in DbOps =>
        \A i \in 1..Len(requests) :
            <<requests[i].method, requests[i].path>> = SpecEndpoint(entry)

\* C8 witness: s3_push_databases has sent its PUT /db/s3
C8_Witness ==
    /\ entry = "s3_push_databases"
    /\ requests = <<Request("PUT", <<"/db/s3">>, EmptyDict)>>

C9_CommandLine == <<"usa-stk-trades", "-u", "usa-stk", "-f", "last", "volume">>

HasJson(line) == "-j" \in Range(line) \/ "--json" \in Range(line)

SetsS3Config ==
    \/ entry = "set_s3_config"
    \/ /\ entry = "_cli_get_or_set_s3_config"
       /\ \E k \in DOMAIN args : Truthy(args[k])
\* the place of the first event e in the events (0 when it did not happen)
FirstEvent(e) ==
    IF e \in Range(events)
    THEN CHOOSE i \in 1..Len(events) :
            events[i] = e /\ \A j \in 1..(i - 1) : events[j] # e
    ELSE 0
NonEmpty(x) == x.t = "str" /\ x.v # ""

\* C11: set_s3_config prompts for the secret exactly when access_key_id is
\* non-empty and secret_access_key is empty or omitted; the prompt comes before
\* the PUT, and a non-empty typed value is sent as secret_access_key in the
\* request that carries access_key_id; with an empty access_key_id there is
\* never a prompt.
C11_PromptForSecret ==
    SetsS3Config /\ pc \notin {"idle", "call"} =>
        /\ (pc = "getpass" \/ typed # None)
              <=> (NonEmpty(args.access_key_id)
                      /\ ~NonEmpty(args.secret_access_key))
        /\ ("getpass" \in Range(events)) <=> (typed # None)
        /\ pc = "getpass" => requests = <<>> /\ typed = None
        /\ typed # None =>
              /\ Len(requests) = 1
              /\ requests[1].method = "PUT"
              /\ FirstEvent("getpass") < FirstEvent("request")
              /\ requests[1].payload["access_key_id"] = args.access_key_id
              /\ NonEmpty(typed) =>
                    /\ "secret_access_key" \in DOMAIN requests[1].payload
                    /\ requests[1].payload["secret_access_key"] = typed
        /\ ~NonEmpty(args.access_key_id) =>
              typed = None /\ pc # "getpass" /\ "getpass" \notin Range(events)

\* C11 witness: set_s3_config(access_key_id="x") prompted and then sent the
\* typed secret with the key
C11_Witness ==
    /\ entry = "set_s3_config"
    /\ args = [access_key_id |-> Str("x"), secret_access_key |-> None,
               bucket |-> None, region |-> None]
    /\ typed = Str("s3cr3t")
    /\ events = <<"getpass", "request">>
    /\ requests = <<Request("PUT", <<"/db/s3config">>,
                            [access_key_id |-> Str("x"),
                             secret_access_key |-> Str("s3cr3t")])>>

AnySetting ==
    \/ NonEmpty(args.access_key_id) \/ NonEmpty(args.secret_access_key)
    \/ NonEmpty(args.bucket) \/ NonEmpty(args.region)

\* C12: an invocation of _cli_get_or_set_s3_config sends exactly one request
\* to /db/s3config: a PUT (set_s3_config) when at least one of the four
\* settings is non-empty, a GET (get_s3_config) when all four are empty; with
\* no setting given no PUT is ever sent.
C12_GetOrSet ==
    entry = "_cli_get_or_set_s3_config" =>
        /\ Len(requests) <= 1
        /\ pc \notin {"idle", "call", "getpass"} => Len(requests) = 1
        /\ \A i \in 1..Len(requests) :
              /\ requests[i].path = <<"/db/s3config">>
              /\ requests[i].method = (IF AnySetting THEN "PUT" ELSE "GET")
        /\ ~AnySetting => typed = None /\ pc # "getpass"

\* C12 witness: with only a bucket given, the invocation has sent its one PUT
\* and finished
C12_Witness ==
    /\ entry = "_cli_get_or_set_s3_config"
    /\ args = [access_key_id |-> None, secret_access_key |-> None,
               bucket |-> Str("x"), region |-> None]
    /\ pc = "done"
    /\ exit = 0
    /\ requests = <<Request("PUT", <<"/db/s3config">>, [bucket |-> Str("x")])>>

\* C12 witness of the other branch is the GET: no setting given, one GET sent
C12_GetBranch ==
    /\ entry = "_cli_get_or_set_s3_config"
    /\ ~AnySetting
    /\ requests = <<Request("GET", <<"/db/s3config">>, EmptyDict)>>

====
